---------------------------- MODULE Spec2Model ----------------------------
(***************************************************************************)
(* A model of TacticalMapRenderer.                                         *)
(*                                                                         *)
(* Two versions of the renderer exist in the sources:                      *)
(*   "keyed"      src/src/index.ts      loadAssets walks the asset entries *)
(*                one by one, serves an entry from the module-level        *)
(*                assetsCache or awaits canvas.loadImage for it; the grid  *)
(*                pass draws a cell-number label.                          *)
(*   "positional" src/unnamed/part_000  loadAssets pushes one loadImage    *)
(*                promise per entry and then awaits promises[0..5] by      *)
(*                position; no cache, no label.                            *)
(* A process runs one of the two; `version` records which.                 *)
(*                                                                         *)
(* JavaScript runs each renderer to its next await without interruption,   *)
(* so one action is one such run.  Renderer ids number the render() calls  *)
(* of the process in the order they are made.  The map of a renderer is a  *)
(* readonly field that only the grid pass reads: the model draws it at     *)
(* that read.                                                              *)
(***************************************************************************)
EXTENDS Integers, Sequences, FiniteSets

VARIABLES
  version,       \* which build of the renderer the process runs
  assetsCache,   \* index.ts:5, path -> image (NoImage: no entry)
  pc,            \* per renderer: "new", "loading", "loaded", "done", "failed"
  options,       \* per renderer: this.options
  promises,      \* per renderer: the canvas.loadImage calls made, in order
  idx,           \* per renderer: position of loadAssets (entry / promise index)
  loadedAssets,  \* per renderer: key -> image (NoImage: undefined)
  map,           \* per renderer: the cellsData the grid pass iterated
  ctx,           \* per renderer: the operations issued on the canvas context
  buffer,        \* per renderer: img.toBuffer() was returned
  startedAfter   \* per renderer: the renders that had finished when it started

vars == <<version, assetsCache, pc, options, promises, idx, loadedAssets,
          map, ctx, buffer, startedAfter>>

------------------------------------------------------------------------------
(* Bounds of the model *)

NRenders == 2
MaxCells == 1
MaxRow == 1

------------------------------------------------------------------------------
(* Constants of ./interfaces/Map (fixed geometry) *)

MAP_WIDTH == 14
CELL_WIDTH == 86
CELL_HEIGHT == 44
CELL_HALF_WIDTH == 43
CELL_HALF_HEIGHT == 22
CELL_DOUBLE_HEIGHT == 88
CELL_OFFSET == 0 - 22
WIDTH == 1247
HEIGHT == 902

WatermarkMax == 100
WatermarkMargin == 10

------------------------------------------------------------------------------
(* Values *)

Min(a, b) == IF a < b THEN a ELSE b

Keys == <<"high", "gray", "purple", "ally", "enemy", "logo">>

KeySet == {Keys[i] : i \in 1..Len(Keys)}

AssetNames == {"areaUnitHigh", "grayCell", "purpleCell", "areaUnitAlly",
               "areaUnitEnemy", "E-bou"}

AssetPaths == {"assets"}

\* `${assetPath}/${value}.png`
AssetPath(assetPath, value) == <<assetPath, value>>

Paths == {AssetPath(d, n) : d \in AssetPaths, n \in AssetNames}

NoPath == <<"", "">>

\* An image object: the path it was decoded from and the render whose
\* loadImage call created it.
NoImage == [src |-> NoPath, by |-> 0]

Image(path, r) == [src |-> path, by |-> r]

\* Natural size of the decoded asset files.
ImageWidth(image) == IF image.src[2] = "E-bou" THEN 128 ELSE CELL_WIDTH

ImageHeight(image) == IF image.src[2] = "E-bou" THEN 64 ELSE CELL_DOUBLE_HEIGHT

AllOptions == [assetPath : AssetPaths, displayStartCells : BOOLEAN,
               addWatermark : BOOLEAN]

NoOptions == [assetPath |-> "", displayStartCells |-> FALSE,
              addWatermark |-> FALSE]

CellNumbers == {row * MAP_WIDTH + col : row \in 0..MaxRow, col \in {0, MAP_WIDTH - 1}}

Cells == [cellNumber : CellNumbers, mov : BOOLEAN, los : BOOLEAN,
          nonWalkableDuringFight : BOOLEAN, blue : BOOLEAN, red : BOOLEAN]

Maps == UNION {[1..n -> Cells] : n \in 0..MaxCells}

EmptyAssets == [k \in KeySet |-> NoImage]

\* The entries of `assets`, in insertion order (Object.entries).
Entries(opts) ==
  <<<<"high", "areaUnitHigh">>, <<"gray", "grayCell">>, <<"purple", "purpleCell">>>>
  \o (IF opts.displayStartCells
        THEN <<<<"ally", "areaUnitAlly">>, <<"enemy", "areaUnitEnemy">>>>
        ELSE << >>)
  \o (IF opts.addWatermark THEN <<<<"logo", "E-bou">>>> ELSE << >>)

EntryPath(opts, e) == AssetPath(opts.assetPath, e[2])

------------------------------------------------------------------------------
(* Initial states *)

Renderers == DOMAIN pc

InitWith(versions, n) ==
  /\ version \in versions
  /\ assetsCache = [p \in Paths |-> NoImage]
  /\ pc = [r \in 1..n |-> "new"]
  /\ options = [r \in 1..n |-> NoOptions]
  /\ promises = [r \in 1..n |-> << >>]
  /\ idx = [r \in 1..n |-> 0]
  /\ loadedAssets = [r \in 1..n |-> EmptyAssets]
  /\ map = [r \in 1..n |-> << >>]
  /\ ctx = [r \in 1..n |-> << >>]
  /\ buffer = [r \in 1..n |-> FALSE]
  /\ startedAfter = [r \in 1..n |-> {}]

\* render() calls are numbered in the order they are made.
IsNextCall(r) == pc[r] = "new" /\ \A s \in Renderers : s < r => pc[s] # "new"

\* The renders that have returned or thrown.
Finished == {s \in Renderers : pc[s] \in {"done", "failed"}}

Pending(path) == [path |-> path, st |-> "pending"]

------------------------------------------------------------------------------
(* loadAssets, keyed version (src/src/index.ts) *)

\* Mutant: the cache is never consulted.
CacheHit_never(cache, path) == FALSE

\* if (assetsCache[assetPath])
CacheHit(cache, path) == cache[path] # NoImage

\* The for loop from entry i on, for as long as entries are served from the
\* cache: it stops at the first entry that needs canvas.loadImage, or past
\* the last entry.
RECURSIVE loadLoop(_, _, _, _)
loadLoop(cache, loaded, opts, i) ==
  IF i > Len(Entries(opts)) THEN [i |-> i, loaded |-> loaded]
  ELSE LET e == Entries(opts)[i]
           path == EntryPath(opts, e)
       IN IF CacheHit(cache, path)
            THEN loadLoop(cache, [loaded EXCEPT ![e[1]] = cache[path]], opts, i + 1)
            ELSE [i |-> i, loaded |-> loaded]

\* Run loadAssets of renderer r from entry i until it suspends in
\* `await canvas.loadImage(assetPath)` or returns the assets to render().
\* `calls` are the loadImage calls r has made so far.
RunLoadLoop(r, cache, loaded, opts, i, calls) ==
  LET res == loadLoop(cache, loaded, opts, i)
  IN /\ idx' = [idx EXCEPT ![r] = res.i]
     /\ loadedAssets' = [loadedAssets EXCEPT ![r] = res.loaded]
     /\ IF res.i > Len(Entries(opts))
          THEN /\ pc' = [pc EXCEPT ![r] = "loaded"]
               /\ promises' = [promises EXCEPT ![r] = calls]
          ELSE /\ pc' = [pc EXCEPT ![r] = "loading"]
               /\ promises' = [promises EXCEPT ![r] =
                     Append(calls, Pending(EntryPath(opts, Entries(opts)[res.i])))]

\* new TacticalMapRenderer(map, opts).render(), up to the first suspension.
render_keyed(r, opts) ==
  /\ version = "keyed"
  /\ IsNextCall(r)
  /\ options' = [options EXCEPT ![r] = opts]
  /\ startedAfter' = [startedAfter EXCEPT ![r] = Finished]
  /\ RunLoadLoop(r, assetsCache, EmptyAssets, opts, 1, << >>)
  /\ UNCHANGED <<version, assetsCache, map, ctx, buffer>>

\* Mutant: storing an image replaces the whole cache.
StoreImage_replacesCache(cache, path, image) ==
  [p \in Paths |-> IF p = path THEN image ELSE NoImage]

\* assetsCache[assetPath] = image
StoreImage(cache, path, image) == [cache EXCEPT ![path] = image]

\* The awaited canvas.loadImage resolves: the image is stored in the cache
\* and under its key, and the loop goes on.  The keyed version has one
\* promise in flight per render and awaits it at once, so the promise
\* resolving and the continuation of the await are one step.
loadImage_resolved(r) ==
  /\ version = "keyed"
  /\ pc[r] = "loading"
  /\ LET opts == options[r]
         e == Entries(opts)[idx[r]]
         path == EntryPath(opts, e)
         image == Image(path, r)
         cache == StoreImage(assetsCache, path, image)
     IN /\ assetsCache' = cache
        /\ RunLoadLoop(r, cache, [loadedAssets[r] EXCEPT ![e[1]] = image], opts,
                       idx[r] + 1,
                       [promises[r] EXCEPT ![Len(promises[r])].st = "resolved"])
  /\ UNCHANGED <<version, options, map, ctx, buffer, startedAfter>>

\* Mutant: the rejection is swallowed and the loop goes on without the image.
loadImage_rejected_swallowed(r) ==
  /\ version = "keyed"
  /\ pc[r] = "loading"
  /\ RunLoadLoop(r, assetsCache, loadedAssets[r], options[r], idx[r] + 1,
                 [promises[r] EXCEPT ![Len(promises[r])].st = "rejected"])
  /\ UNCHANGED <<version, assetsCache, options, map, ctx, buffer, startedAfter>>

\* Mutant: the promise is cached before it is awaited, so a rejection
\* leaves an entry behind.
loadImage_rejected_cached(r) ==
  /\ version = "keyed"
  /\ pc[r] = "loading"
  /\ promises' = [promises EXCEPT ![r][Len(promises[r])].st = "rejected"]
  /\ assetsCache' = [assetsCache EXCEPT
                       ![promises[r][Len(promises[r])].path] =
                         Image(promises[r][Len(promises[r])].path, r)]
  /\ pc' = [pc EXCEPT ![r] = "failed"]
  /\ UNCHANGED <<version, options, idx, loadedAssets, map, ctx, buffer, startedAfter>>

\* The awaited canvas.loadImage rejects: loadAssets throws, render() rejects.
loadImage_rejected(r) ==
  /\ version = "keyed"
  /\ pc[r] = "loading"
  /\ promises' = [promises EXCEPT ![r][Len(promises[r])].st = "rejected"]
  /\ pc' = [pc EXCEPT ![r] = "failed"]
  /\ UNCHANGED <<version, assetsCache, options, idx, loadedAssets, map, ctx,
                 buffer, startedAfter>>

------------------------------------------------------------------------------
(* loadAssets, positional version (src/unnamed/part_000) *)

\* One canvas.loadImage promise per entry, pushed in entry order.
PushedPromises(opts) ==
  [i \in 1..Len(Entries(opts)) |-> Pending(EntryPath(opts, Entries(opts)[i]))]

\* new TacticalMapRenderer(map, opts).render(): every loadImage is called,
\* then loadAssets suspends in `await promises[0]`.
render_positional(r, opts) ==
  /\ version = "positional"
  /\ IsNextCall(r)
  /\ options' = [options EXCEPT ![r] = opts]
  /\ startedAfter' = [startedAfter EXCEPT ![r] = Finished]
  /\ promises' = [promises EXCEPT ![r] = PushedPromises(opts)]
  /\ idx' = [idx EXCEPT ![r] = 1]
  /\ pc' = [pc EXCEPT ![r] = "loading"]
  /\ UNCHANGED <<version, assetsCache, loadedAssets, map, ctx, buffer>>

\* The decode behind one pending promise ends, with an image or an error.
promise_settled(r, i, ok) ==
  /\ version = "positional"
  /\ i \in 1..Len(promises[r])
  /\ promises[r][i].st = "pending"
  /\ promises' = [promises EXCEPT ![r][i].st = IF ok THEN "resolved" ELSE "rejected"]
  /\ UNCHANGED <<version, assetsCache, pc, options, idx, loadedAssets, map, ctx,
                 buffer, startedAfter>>

\* What `await promises[i - 1]` yields once it can: the image of a resolved
\* promise, undefined where the array has no promise.
AwaitedValue(r, calls, i) ==
  IF i > Len(calls) THEN NoImage ELSE Image(calls[i].path, r)

\* `key: await promises[i - 1]` of the returned object: Keys[i] receives
\* what the i-th promise yields; a rejected promise makes loadAssets throw.
await_positional(r) ==
  /\ version = "positional"
  /\ pc[r] = "loading"
  /\ LET i == idx[r]
         calls == promises[r]
     IN /\ (IF i > Len(calls) THEN TRUE ELSE calls[i].st # "pending")
        /\ IF i <= Len(calls) /\ calls[i].st = "rejected"
             THEN /\ pc' = [pc EXCEPT ![r] = "failed"]
                  /\ UNCHANGED <<idx, loadedAssets>>
             ELSE /\ loadedAssets' = [loadedAssets EXCEPT ![r][Keys[i]] =
                                         AwaitedValue(r, calls, i)]
                  /\ idx' = [idx EXCEPT ![r] = i + 1]
                  /\ pc' = [pc EXCEPT ![r] = IF i = Len(Keys) THEN "loaded" ELSE "loading"]
  /\ UNCHANGED <<version, assetsCache, options, promises, map, ctx, buffer,
                 startedAfter>>

------------------------------------------------------------------------------
(* render(): the canvas, the grid pass, the watermark *)

NoText == << >>

\* One operation issued on the 2d context.  `layer` names the statement
\* that issued it and `cell` the position in cellsData of the cell it was
\* issued for (0: none); `image` is the image object handed to drawImage.
Op(op, layer, style, image, x, y, w, h, cell, text) ==
  [op |-> op, layer |-> layer, style |-> style, image |-> image,
   x |-> x, y |-> y, w |-> w, h |-> h, cell |-> cell, text |-> text]

DrawImage(layer, image, x, y, w, h, cell) ==
  Op("drawImage", layer, "", image, x, y, w, h, cell, NoText)

\* ctx.fillStyle = 'black'; ctx.fillRect(0, 0, WIDTH, HEIGHT)
Background == Op("fillRect", "background", "black", NoImage, 0, 0, WIDTH, HEIGHT, 0, NoText)

\* Number.prototype.toString, as the sequence of decimal digits.
RECURSIVE ToString(_)
ToString(n) ==
  IF n < 10 THEN <<n>> ELSE Append(ToString(n \div 10), n % 10)

\* cellCoords.y = Math.floor(cellId / MAP_WIDTH)
CellRow(cellId) == cellId \div MAP_WIDTH

CellX(cellId) ==
  (cellId % MAP_WIDTH) * CELL_WIDTH + (CellRow(cellId) % 2) * CELL_HALF_WIDTH

CellY(cellId) == CellRow(cellId) * CELL_HALF_HEIGHT

\* Mutant: the row parity test is inverted.
TerrainAsset_swapped(assets, cellId) ==
  IF CellRow(cellId) % 2 = 0 THEN assets["purple"] ELSE assets["gray"]

\* cellCoords.y % 2 === 0 ? assets.gray : assets.purple
TerrainAsset(assets, cellId) ==
  IF CellRow(cellId) % 2 = 0 THEN assets["gray"] ELSE assets["purple"]

\* if (cell.mov && !cell.nonWalkableDuringFight)
DrawsTerrain(cell) == cell.mov /\ ~cell.nonWalkableDuringFight

TerrainLayer(assets, cell, k) ==
  IF DrawsTerrain(cell)
    THEN <<DrawImage("terrain", TerrainAsset(assets, cell.cellNumber),
                     CellX(cell.cellNumber), CellY(cell.cellNumber),
                     CELL_WIDTH, CELL_HEIGHT, k)>>
    ELSE << >>

\* Mutant: the overlay ignores nonWalkableDuringFight.
DrawsLos_ignoresFight(cell) == ~cell.los

\* if (!cell.los && !cell.nonWalkableDuringFight)
DrawsLos(cell) == ~cell.los /\ ~cell.nonWalkableDuringFight

LosLayer(assets, cell, k) ==
  IF DrawsLos(cell)
    THEN <<DrawImage("los", assets["high"],
                     CellX(cell.cellNumber), CellY(cell.cellNumber) + CELL_OFFSET,
                     CELL_WIDTH, CELL_DOUBLE_HEIGHT, k)>>
    ELSE << >>

\* Mutant: the ally overlay does not test displayStartCells.
DrawsAlly_anyOptions(opts, assets, cell) == cell.blue /\ assets["ally"] # NoImage

\* if (cell.blue && assets.ally && this.options.displayStartCells)
DrawsAlly(opts, assets, cell) ==
  cell.blue /\ assets["ally"] # NoImage /\ opts.displayStartCells

\* if (cell.red && assets.enemy && this.options.displayStartCells)
DrawsEnemy(opts, assets, cell) ==
  cell.red /\ assets["enemy"] # NoImage /\ opts.displayStartCells

StartLayers(opts, assets, cell, k) ==
  (IF DrawsAlly(opts, assets, cell)
     THEN <<DrawImage("ally", assets["ally"],
                      CellX(cell.cellNumber), CellY(cell.cellNumber) + CELL_OFFSET,
                      CELL_WIDTH, CELL_DOUBLE_HEIGHT, k)>>
     ELSE << >>)
  \o
  (IF DrawsEnemy(opts, assets, cell)
     THEN <<DrawImage("enemy", assets["enemy"],
                      CellX(cell.cellNumber), CellY(cell.cellNumber) + CELL_OFFSET,
                      CELL_WIDTH, CELL_DOUBLE_HEIGHT, k)>>
     ELSE << >>)

\* Mutant: the line-of-sight overlay sets the flag too.
cellNeedToBeDraw_withLos(opts, assets, cell) ==
  DrawsTerrain(cell) \/ DrawsLos(cell) \/ DrawsAlly(opts, assets, cell)
  \/ DrawsEnemy(opts, assets, cell)

\* cellNeedToBeDraw at the end of the loop body (keyed version only).
cellNeedToBeDraw(opts, assets, cell) ==
  DrawsTerrain(cell) \/ DrawsAlly(opts, assets, cell) \/ DrawsEnemy(opts, assets, cell)

\* ctx.fillText(cellId.toString(), x + CELL_WIDTH / 2, y + CELL_HEIGHT / 2)
LabelLayer(ver, opts, assets, cell, k) ==
  IF ver = "keyed" /\ cellNeedToBeDraw(opts, assets, cell)
    THEN <<Op("fillText", "label", "white", NoImage,
              CellX(cell.cellNumber) + CELL_WIDTH \div 2,
              CellY(cell.cellNumber) + CELL_HEIGHT \div 2,
              0, 0, k, ToString(cell.cellNumber))>>
    ELSE << >>

\* The body of `for (const cell of cellsData)` for the k-th cell.
DrawCell(ver, opts, assets, cell, k) ==
  TerrainLayer(assets, cell, k) \o LosLayer(assets, cell, k)
  \o StartLayers(opts, assets, cell, k) \o LabelLayer(ver, opts, assets, cell, k)

RECURSIVE GridPass(_, _, _, _, _)
GridPass(ver, opts, assets, cells, k) ==
  IF k > Len(cells) THEN << >>
  ELSE DrawCell(ver, opts, assets, cells[k], k)
       \o GridPass(ver, opts, assets, cells, k + 1)

\* addWatermark(ctx, asset)
addWatermark(asset) ==
  LET assetWidth == Min(WatermarkMax, ImageWidth(asset))
      assetHeight == Min(WatermarkMax, ImageHeight(asset))
  IN DrawImage("watermark", asset,
               WIDTH - assetWidth - WatermarkMargin,
               HEIGHT - assetHeight - WatermarkMargin,
               assetWidth, assetHeight, 0)

\* if (this.options.addWatermark && assets.logo)
Watermark(opts, assets) ==
  IF opts.addWatermark /\ assets["logo"] # NoImage
    THEN <<addWatermark(assets["logo"])>>
    ELSE << >>

\* Everything render() issues on the context after loadAssets returned.
Drawn(ver, opts, assets, cells) ==
  <<Background>> \o GridPass(ver, opts, assets, cells, 1) \o Watermark(opts, assets)

\* render() resumes with the assets: canvas, background, grid pass,
\* watermark, toBuffer().  No await in between.
render_draw(r, maps) ==
  /\ pc[r] = "loaded"
  /\ \E cells \in maps :
       /\ map' = [map EXCEPT ![r] = cells]
       /\ ctx' = [ctx EXCEPT ![r] = Drawn(version, options[r], loadedAssets[r], cells)]
  /\ buffer' = [buffer EXCEPT ![r] = TRUE]
  /\ pc' = [pc EXCEPT ![r] = "done"]
  /\ UNCHANGED <<version, assetsCache, options, promises, idx, loadedAssets,
                 startedAfter>>

------------------------------------------------------------------------------
(* Specifications *)

\* One render of either version, over every map of the bounds.
InitDraw == InitWith({"keyed", "positional"}, 1)

NextDraw ==
  \/ \E r \in Renderers, opts \in AllOptions : render_keyed(r, opts)
  \/ \E r \in Renderers : loadImage_resolved(r)
  \/ \E r \in Renderers : loadImage_rejected(r)
  \/ \E r \in Renderers, opts \in AllOptions : render_positional(r, opts)
  \/ \E r \in Renderers, i \in 1..Len(Keys), ok \in BOOLEAN : promise_settled(r, i, ok)
  \/ \E r \in Renderers : await_positional(r)
  \/ \E r \in Renderers : render_draw(r, Maps)

SpecDraw == InitDraw /\ [][NextDraw]_vars

\* Several renders of the keyed version sharing assetsCache.
CacheMaps == {<< >>}

\* The asset sets without the start-cell overlays.
CacheOptions == {o \in AllOptions : ~o.displayStartCells}

InitCache == InitWith({"keyed"}, NRenders)

NextCache ==
  \/ \E r \in Renderers, opts \in CacheOptions : render_keyed(r, opts)
  \/ \E r \in Renderers : loadImage_resolved(r)
  \/ \E r \in Renderers : loadImage_rejected(r)
  \/ \E r \in Renderers : render_draw(r, CacheMaps)

SpecCache == InitCache /\ [][NextCache]_vars

------------------------------------------------------------------------------
(* Vocabulary of the properties *)

\* The paths renderer r has to load.
Required(opts) == {EntryPath(opts, Entries(opts)[i]) : i \in 1..Len(Entries(opts))}

\* The loadImage calls made so far, as <<renderer, position>>.
Calls == {c \in Renderers \X (1..Len(Keys)) : c[2] <= Len(promises[c[1]])}

CallsOf(path) == {c \in Calls : promises[c[1]][c[2]].path = path}

Succeeded == {promises[c[1]][c[2]].path :
                c \in {d \in Calls : promises[d[1]][d[2]].st = "resolved"}}

Cached == {p \in Paths : assetsCache[p] # NoImage}

HasPending(r) == \E i \in 1..Len(promises[r]) : promises[r][i].st = "pending"

\* The operations issued for the k-th cell of renderer r, in order.
CellOps(r, k) ==
  LET OfCell(o) == o.cell = k
  IN SelectSeq(ctx[r], OfCell)

\* Positions in a sequence of operations that draw the named asset.
DrawsOf(ops, names) ==
  {i \in 1..Len(ops) : ops[i].op = "drawImage" /\ ops[i].image.src[2] \in names}

\* Positions in a sequence of operations issued by the named statements.
IssuedBy(ops, layers) == {i \in 1..Len(ops) : ops[i].layer \in layers}

DoneCells == {c \in Renderers \X (1..MaxCells) :
                pc[c[1]] = "done" /\ c[2] <= Len(map[c[1]])}

------------------------------------------------------------------------------
(* Properties of one render (SpecDraw) *)

\* C1: a render whose asset decoding failed has issued no operation on a
\* canvas and returned no buffer, and a render that has issued an operation
\* or returned a buffer has no decode pending or failed: every decode of the
\* render completed before its first draw.
C1_NoDrawBeforeLoaded ==
  \A r \in Renderers :
    /\ pc[r] \in {"new", "loading", "failed"} => ctx[r] = << >> /\ ~buffer[r]
    /\ (\E i \in 1..Len(promises[r]) : promises[r][i].st = "rejected")
         => ctx[r] = << >> /\ ~buffer[r]
    /\ (ctx[r] # << >> \/ buffer[r])
         => \A i \in 1..Len(promises[r]) : promises[r][i].st = "resolved"

\* A render failed after some of its assets had been decoded.
C1_Witness ==
  \E r \in Renderers :
    /\ pc[r] = "failed"
    /\ \E i \in 1..Len(promises[r]) : promises[r][i].st = "resolved"
    /\ \E i \in 1..Len(promises[r]) : promises[r][i].st = "rejected"

\* C3 (as claimed): a render suspended in loadAssets has already requested
\* every required asset it has not been served, and loadAssets has returned
\* or thrown only when none of its requests is pending.
C3_AllRequestedBeforeWaiting ==
  \A r \in Renderers :
    /\ pc[r] = "loading" =>
         \A i \in 1..Len(Entries(options[r])) :
           \/ loadedAssets[r][Entries(options[r])[i][1]] # NoImage
           \/ \E j \in 1..Len(promises[r]) :
                promises[r][j].path = EntryPath(options[r], Entries(options[r])[i])
    /\ pc[r] \in {"loaded", "done", "failed"} => ~HasPending(r)

LogoDraws(r) == DrawsOf(ctx[r], {"E-bou"})

\* C4 (as claimed): a completed render with addWatermark drew the logo
\* image exactly once, as its last operation; one without drew it never.
C4_LogoOnceAndLast ==
  \A r \in Renderers :
    pc[r] = "done" =>
      IF options[r].addWatermark
        THEN LogoDraws(r) = {Len(ctx[r])}
        ELSE LogoDraws(r) = {}

\* C5: for every cell of a completed render, a terrain tile is drawn iff mov
\* and not nonWalkableDuringFight; it is then the first operation of the
\* cell, drawn once, gray on an even row and purple on an odd one, at
\* x = col * CELL_WIDTH + (row mod 2) * CELL_HALF_WIDTH, y = row * CELL_HALF_HEIGHT.
C5_TerrainTile ==
  \A c \in DoneCells :
    LET r == c[1]
        cell == map[r][c[2]]
        ops == CellOps(r, c[2])
        tiles == DrawsOf(ops, {"grayCell", "purpleCell"})
        row == cell.cellNumber \div MAP_WIDTH
        col == cell.cellNumber % MAP_WIDTH
    IN /\ tiles # {} <=> (cell.mov /\ ~cell.nonWalkableDuringFight)
       /\ tiles # {} =>
            /\ tiles = {1}
            /\ ops[1].image.src =
                 AssetPath(options[r].assetPath,
                           IF row % 2 = 0 THEN "grayCell" ELSE "purpleCell")
            /\ ops[1].x = col * CELL_WIDTH + (row % 2) * CELL_HALF_WIDTH
            /\ ops[1].y = row * CELL_HALF_HEIGHT

\* A tile on an odd row, off the first column, followed by an overlay.
C5_Witness ==
  \E c \in DoneCells :
    LET cell == map[c[1]][c[2]]
        ops == CellOps(c[1], c[2])
    IN /\ (cell.cellNumber \div MAP_WIDTH) % 2 = 1
       /\ cell.cellNumber % MAP_WIDTH # 0
       /\ DrawsOf(ops, {"purpleCell"}) = {1}
       /\ DrawsOf(ops, {"areaUnitHigh"}) = {2}

\* C6: for every cell of a completed render, the line-of-sight overlay is
\* drawn (once, at (x, y + CELL_OFFSET)) iff los is false and
\* nonWalkableDuringFight is false, whatever mov is; a cell with
\* nonWalkableDuringFight gets neither the tile nor the overlay.
C6_LosOverlay ==
  \A c \in DoneCells :
    LET r == c[1]
        cell == map[r][c[2]]
        ops == CellOps(r, c[2])
        highs == DrawsOf(ops, {"areaUnitHigh"})
        row == cell.cellNumber \div MAP_WIDTH
        col == cell.cellNumber % MAP_WIDTH
    IN /\ highs # {} <=> (~cell.los /\ ~cell.nonWalkableDuringFight)
       /\ Cardinality(highs) <= 1
       /\ \A i \in highs :
            /\ ops[i].x = col * CELL_WIDTH + (row % 2) * CELL_HALF_WIDTH
            /\ ops[i].y = row * CELL_HALF_HEIGHT + CELL_OFFSET
       /\ cell.nonWalkableDuringFight =>
            highs = {} /\ DrawsOf(ops, {"grayCell", "purpleCell"}) = {}

\* The overlay drawn on an odd row for a cell that is not walkable.
C6_Witness ==
  \E c \in DoneCells :
    /\ ~map[c[1]][c[2]].mov
    /\ (map[c[1]][c[2]].cellNumber \div MAP_WIDTH) % 2 = 1
    /\ DrawsOf(CellOps(c[1], c[2]), {"areaUnitHigh"}) = {1}

\* C7: without displayStartCells no cell gets an ally or enemy overlay,
\* whatever blue, red, addWatermark and the loaded assets are; with it, the
\* ally overlay is drawn (once, with the ally image) iff blue and the enemy
\* overlay (once, with the enemy image) iff red.
C7_StartOverlays ==
  \A c \in DoneCells :
    LET r == c[1]
        cell == map[r][c[2]]
        ops == CellOps(r, c[2])
        allies == IssuedBy(ops, {"ally"})
        enemies == IssuedBy(ops, {"enemy"})
    IN IF ~options[r].displayStartCells
         THEN allies = {} /\ enemies = {}
         ELSE /\ allies # {} <=> cell.blue
              /\ enemies # {} <=> cell.red
              /\ Cardinality(allies) <= 1 /\ Cardinality(enemies) <= 1
              /\ \A i \in allies : ops[i].image.src[2] = "areaUnitAlly"
              /\ \A i \in enemies : ops[i].image.src[2] = "areaUnitEnemy"
              /\ \A i \in allies : \A j \in enemies : i < j

\* A blue and red cell drawn without displayStartCells while an image sits
\* under the ally key.
C7_Witness ==
  \E c \in DoneCells :
    /\ map[c[1]][c[2]].blue /\ map[c[1]][c[2]].red
    /\ ~options[c[1]].displayStartCells
    /\ loadedAssets[c[1]]["ally"] # NoImage

\* C9 (as claimed): in the keyed version the label of a cell is drawn iff
\* the tile, the line-of-sight overlay, the ally overlay or the enemy
\* overlay of the cell was drawn.
C9_LabelIffAnyLayer ==
  \A c \in DoneCells :
    version = "keyed" =>
      LET ops == CellOps(c[1], c[2])
      IN IssuedBy(ops, {"label"}) # {}
           <=> IssuedBy(ops, {"terrain", "los", "ally", "enemy"}) # {}

\* C9 (amended): in the keyed version the label of a cell is drawn (once,
\* after the layers of the cell) iff the tile, the ally overlay or the enemy
\* overlay of the cell was drawn; the line-of-sight overlay alone does not
\* make the cell labelled.
C9_LabelIffTileOrStart ==
  \A c \in DoneCells :
    version = "keyed" =>
      LET ops == CellOps(c[1], c[2])
          labels == IssuedBy(ops, {"label"})
      IN /\ labels # {} <=> IssuedBy(ops, {"terrain", "ally", "enemy"}) # {}
         /\ labels # {} => labels = {Len(ops)}

\* A cell with the line-of-sight overlay only, and no label.
C9_Witness ==
  \E c \in DoneCells :
    /\ version = "keyed"
    /\ IssuedBy(CellOps(c[1], c[2]), {"los"}) # {}
    /\ IssuedBy(CellOps(c[1], c[2]), {"terrain", "ally", "enemy", "label"}) = {}

------------------------------------------------------------------------------
(* Properties of the shared cache (SpecCache) *)

\* Entry i of renderer r has been passed by its load loop.
Processed(r, i) == pc[r] # "new" /\ i < idx[r]

CacheSound ==
  /\ \A p \in Cached : assetsCache[p].src = p
  /\ \A r \in Renderers :
       pc[r] \in {"loaded", "done"} =>
         \A i \in 1..Len(Entries(options[r])) :
           loadedAssets[r][Entries(options[r])[i][1]].src
             = EntryPath(options[r], Entries(options[r])[i])

\* No step removes an entry of the cache.
CacheKeeps == \A p \in Cached : assetsCache'[p] # NoImage

\* C8: under every interleaving of renders the cache is never corrupted:
\* each entry for path p holds an image decoded from p, an entry once
\* present is never removed, and every render that completes received for
\* each required key the image of that key's own path.
C8_CacheNeverCorrupted == []CacheSound /\ [][CacheKeeps]_vars

\* Two renders decoded the same path, the later write replaced the earlier
\* entry, and both renders completed.
C8_Witness ==
  \E r, s \in Renderers :
    /\ r # s /\ pc[r] = "done" /\ pc[s] = "done"
    /\ \E p \in Cached :
         /\ assetsCache[p].by = r
         /\ loadedAssets[s]["high"].by = s
         /\ p = loadedAssets[s]["high"].src

\* C10: the keys of the cache are exactly the paths for which a
\* canvas.loadImage call has succeeded; a failed load keeps the entries of
\* the assets it decoded before failing; and no render gets past a required
\* path without its own loadImage call unless some call for that path has
\* succeeded, so a path that only ever failed is requested again.
C10_FailuresNotCached ==
  /\ Cached = Succeeded
  /\ \A r \in Renderers :
       pc[r] = "failed" =>
         \A j \in 1..Len(promises[r]) :
           promises[r][j].st = "resolved" => promises[r][j].path \in Cached
  /\ \A r \in Renderers :
       \A i \in 1..Len(Entries(options[r])) :
         (pc[r] # "new" /\ i <= idx[r]) =>
           LET p == EntryPath(options[r], Entries(options[r])[i])
           IN \/ \E j \in 1..Len(promises[r]) : promises[r][j].path = p
              \/ p \in Succeeded

\* A render failed on a path after decoding another one, the decoded one is
\* still cached, and a render started later has called loadImage for the
\* failed path again.
C10_Witness ==
  \E r \in Renderers :
    \E s \in startedAfter[r] :
      /\ pc[s] = "failed"
      /\ Len(promises[s]) > 1
      /\ promises[s][1].path \in Cached
      /\ promises[s][Len(promises[s])].path \notin Cached
      /\ \E j \in 1..Len(promises[r]) :
           promises[r][j].path = promises[s][Len(promises[s])].path

==============================================================================
